---- MODULE Spec2Model ----
(***************************************************************************)
(* State-machine model of the audit runner in src/main.py: the class       *)
(* EnumerationFramework (load_config, load_test_module, discover_tests,    *)
(* run_test, run_all_tests, print_summary, save_results) and main().       *)
(*                                                                         *)
(* Python values are modelled as follows.                                  *)
(*   dict with string keys   a function whose DOMAIN is the set of keys    *)
(*                           (a key that is absent is not in the DOMAIN)   *)
(*   insertion-ordered dict  (self.tests, self.results) a sequence of      *)
(*                           [name, value] items with distinct names       *)
(*   str                     a TLA+ string                                 *)
(*   exception               [cls, args]                                   *)
(*   module object / None    [type |-> "module", dict] / [type |-> "NoneType"] *)
(*   JSON value              [json |-> "null" | "object" | "string", ...]  *)
(***************************************************************************)
EXTENDS Integers, Sequences, FiniteSets, TLC

VARIABLES
    pc,         \* position of main(): the call it is about to make
    cfgFile,    \* what is at config_path on disk (input, never written)
    config,     \* self.config
    tests,      \* self.tests
    results,    \* self.results
    it,         \* position of the iterator of run_all_tests over self.tests.items()
    now,        \* the wall clock read by datetime.now()
    out,        \* lines printed to stdout, in order
    disk,       \* output files written by save_results: path -> content
    started,    \* history: the calls module.run(params) begun so far, in order
    invoked,    \* history: the calls module.run(params) that are over, in order,
                \* each with its outcome
    uncaught,   \* class of the exception that escaped main(), or "none"
    exitCode    \* exit status of the process: << >> while it runs, <<c>> after

vars == <<pc, cfgFile, config, tests, results, it, now, out, disk, started,
          invoked, uncaught, exitCode>>

----------------------------------------------------------------------------
(* Bounds of the model. *)

\* longest checks list of a configuration
MaxChecks == 2

----------------------------------------------------------------------------
(* Python helpers. *)

EmptyDict == [k \in {} |-> k]

NoneValue == [type |-> "NoneType"]

\* d.get(k, default)
Get(d, k, default) == IF k \in DOMAIN d THEN d[k] ELSE default

\* k in d, for an insertion-ordered dict
HasKey(od, k) == \E j \in 1..Len(od) : od[j].name = k

Keys(od) == {od[j].name : j \in 1..Len(od)}

\* od[k], for a key that is present
Lookup(od, k) == od[CHOOSE j \in 1..Len(od) : od[j].name = k].value

\* od[k] = v in a mapping whose keys keep the value they were first given
DictSet_KeepFirst(od, k, v) ==
    IF HasKey(od, k) THEN od ELSE Append(od, [name |-> k, value |-> v])

\* od[k] = v: a new key is appended, an existing key keeps its position and
\* takes the new value
DictSet(od, k, v) ==
    IF HasKey(od, k)
    THEN [j \in 1..Len(od) |->
            IF od[j].name = k THEN [name |-> k, value |-> v] ELSE od[j]]
    ELSE Append(od, [name |-> k, value |-> v])

\* repr() of a str without quotes or escapes in it
Repr(s) == "'" \o s \o "'"

\* str(e) of an exception: BaseException.__str__ gives "" without arguments and
\* str(args[0]) with one; KeyError.__str__ gives repr(args[0]) with one
Str(e) ==
    IF Len(e.args) = 0 THEN ""
    ELSE IF e.cls = "KeyError" THEN Repr(e.args[1])
    ELSE e.args[1]

\* datetime.isoformat() of the clock reading t
Isoformat(t) == "2026-01-01T00:00:0" \o ToString(t)

\* os.path.join(a, b) for a relative b
PathJoin(a, b) == a \o "/" \o b

----------------------------------------------------------------------------
(* The environment: the files on disk and what the check modules do. *)

ConfigPath == "config.json"

\* The check files that exist, by path, and what executing each as a module
\* does: define a function run, bind run to an integer, define no run at all,
\* fail with SyntaxError, or, for firewallCheck.py, define its three
\* functions. No other path exists.
FileSystem ==
    [p \in {"tests/ok.py", "tests/attr.py", "tests/norun.py", "tests/bad.py",
            "t/gone.py", "tests/firewallCheck.py"} |->
        CASE p = "tests/ok.py"    -> [exec |-> "ok", dict |-> [run |-> "function"]]
          [] p = "tests/firewallCheck.py" ->
                [exec |-> "ok",
                 dict |-> [run |-> "function",
                           extract_firewall_rules |-> "function",
                           check_ufw_without_sudo |-> "function"]]
          [] p = "tests/attr.py"  -> [exec |-> "ok", dict |-> [run |-> "int"]]
          [] p = "tests/norun.py" -> [exec |-> "ok", dict |-> EmptyDict]
          [] p = "tests/bad.py"   ->
                [exec |-> "raise",
                 exc |-> [cls |-> "SyntaxError", args |-> <<"invalid syntax (bad.py, line 1)">>]]
          [] p = "t/gone.py"      -> [exec |-> "ok", dict |-> [run |-> "function"]]]

\* open(path, 'w') succeeds
Writable(path) == path # "/ro/out.json"

\* A dict with the one key 1, of type int: {1: 'x'}
IntKeyDict == [type |-> "dict", items |-> <<[key |-> 1, value |-> "x"]>>]

\* What a check's run(params) may return: a structured result with string
\* keys, None, a dict with an integer key, or a set.
Payloads ==
    {[type |-> "dict", value |-> [status |-> "completed"]], NoneValue,
     IntKeyDict, [type |-> "set"]}

\* What a check's run(params) may raise: instances of subclasses of Exception.
Raised ==
    {[cls |-> "RuntimeError", args |-> <<"boom">>],
     [cls |-> "RuntimeError", args |-> << >>],
     [cls |-> "KeyError", args |-> <<"k">>]}

----------------------------------------------------------------------------
(* src/tests/firewallCheck.py. A text is the sequence of its lines, a line  *)
(* the sequence of its characters. The payloads are given with the fields   *)
(* that depend on the input; the fixed texts of message, recommendation,    *)
(* commands and the like are left out, and handler names the except clause  *)
(* a payload comes from in place of that clause's fixed texts.              *)

UpperCase ==
    <<"A", "B", "C", "D", "E", "F", "G", "H", "I", "J", "K", "L", "M", "N",
      "O", "P", "Q", "R", "S", "T", "U", "V", "W", "X", "Y", "Z", "Í", "Ý">>

LowerCase ==
    <<"a", "b", "c", "d", "e", "f", "g", "h", "i", "j", "k", "l", "m", "n",
      "o", "p", "q", "r", "s", "t", "u", "v", "w", "x", "y", "z", "í", "ý">>

\* str.lower() of one character
LowerChar(c) ==
    IF \E i \in DOMAIN UpperCase : UpperCase[i] = c
    THEN LowerCase[CHOOSE i \in DOMAIN UpperCase : UpperCase[i] = c]
    ELSE c

\* text.lower()
Lower(text) ==
    [l \in DOMAIN text |-> [i \in DOMAIN text[l] |-> LowerChar(text[l][i])]]

\* needle in line
InLine(needle, line) ==
    \E i \in 0..(Len(line) - Len(needle)) :
        SubSeq(line, i + 1, i + Len(needle)) = needle

\* needle in text, for a needle without a newline
In(needle, text) == \E l \in DOMAIN text : InLine(needle, text[l])

\* the positions of a line that hold something other than a space
NonSpace(line) == {i \in DOMAIN line : line[i] # " "}

\* line.strip()
StripLine(line) ==
    IF NonSpace(line) = {} THEN << >>
    ELSE SubSeq(line,
                CHOOSE i \in NonSpace(line) : \A k \in NonSpace(line) : i <= k,
                CHOOSE i \in NonSpace(line) : \A k \in NonSpace(line) : k <= i)

\* text.strip(): the blank lines at both ends go, and the spaces before the
\* first and after the last character that is left
Strip(text) ==
    LET full == {l \in DOMAIN text : NonSpace(text[l]) # {}} IN
    IF full = {} THEN << >>
    ELSE LET first == CHOOSE l \in full : \A k \in full : l <= k
             last == CHOOSE l \in full : \A k \in full : k <= l
         IN  [l \in 1..(last - first + 1) |->
                LET line == text[first + l - 1] IN
                IF first = last THEN StripLine(line)
                ELSE IF l = 1
                THEN SubSeq(line, Len(line) - Len(StripLine(line \o <<"x">>)) + 2,
                            Len(line))
                ELSE IF l = last - first + 1
                THEN SubSeq(line, 1, Len(StripLine(<<"x">> \o line)) - 1)
                ELSE line]

\* line.split(): the starts of the words of the line
Parts(line) ==
    {i \in NonSpace(line) : i = 1 \/ line[i - 1] = " "}

\* line.split()[0], for a line that is not blank
FirstPart(line) ==
    LET start == CHOOSE i \in Parts(line) : \A k \in Parts(line) : i <= k
        stop == CHOOSE i \in start..Len(line) :
                    /\ \A k \in start..i : line[k] # " "
                    /\ (i = Len(line) \/ line[i + 1] = " ")
    IN  SubSeq(line, start, stop)

\* the loop of extract_firewall_rules over the lines from position j on
RECURSIVE extract_loop(_, _, _, _)
extract_loop(lines, j, in_rules_section, rules) ==
    IF j > Len(lines) THEN rules
    ELSE LET line == lines[j] IN
         IF \/ InLine(<<"-", "-", "-">>, line)
            \/ (InLine(<<"T", "o">>, line)
                  /\ InLine(<<"A", "c", "t", "i", "o", "n">>, line))
         THEN extract_loop(lines, j + 1, TRUE, rules)
         ELSE IF in_rules_section /\ StripLine(line) # << >>
                 /\ Cardinality(Parts(line)) >= 2
         THEN extract_loop(lines, j + 1, in_rules_section,
                           Append(rules, [raw |-> StripLine(line),
                                          service |-> FirstPart(line)]))
         ELSE extract_loop(lines, j + 1, in_rules_section, rules)

extract_firewall_rules(output) == extract_loop(output, 1, FALSE, << >>)

\* The literals of lines 47 and 48
NeedleStatusActive ==
    <<"S", "t", "a", "t", "u", "s", ":", " ", "a", "c", "t", "i", "v", "e">>

NeedleStavAktivny ==
    <<"s", "t", "a", "v", ":", " ", "a", "k", "t", "í", "v", "n", "y">>

\* is_active of line 47
IsActive(output) ==
    In(NeedleStatusActive, Lower(output)) \/ In(NeedleStavAktivny, Lower(output))

\* IsActive with the literals of line 47 both in lower case
IsActive_LowerLiteral(output) ==
    In(Lower(<<NeedleStatusActive>>)[1], Lower(output))
        \/ In(NeedleStavAktivny, Lower(output))

\* What `ufw status` prints: the firewall active or inactive, with or
\* without rules, in English or in Slovak, or nothing
UfwOutputs ==
    {
     <<<<"S", "t", "a", "t", "u", "s", ":", " ", "a", "c", "t", "i", "v",
         "e">>>>,
     <<<<"S", "t", "a", "t", "u", "s", ":", " ", "i", "n", "a", "c", "t",
         "i", "v", "e">>>>,
     <<<<"S", "t", "a", "t", "u", "s", ":", " ", "a", "c", "t", "i", "v",
         "e">>,
       <<>>,
       <<"T", "o", " ", "A", "c", "t", "i", "o", "n", " ", "F", "r", "o",
         "m">>,
       <<"-", "-", " ", "-", "-", "-", "-", "-", "-", " ", "-", "-", "-",
         "-">>,
       <<"2", "2", "/", "t", "c", "p", " ", "A", "L", "L", "O", "W", " ",
         "A", "n", "y", "w", "h", "e", "r", "e">>,
       <<"8", "0", "/", "t", "c", "p", " ", "D", "E", "N", "Y", " ", "A",
         "n", "y", "w", "h", "e", "r", "e">>,
       <<>>>>,
     <<<<"S", "t", "a", "v", ":", " ", "a", "k", "t", "í", "v", "n", "y">>>>,
     <<<<"S", "t", "a", "v", ":", " ", "n", "e", "a", "k", "t", "í", "v",
         "n", "y">>>>,
     <<<<"S", "t", "a", "v", ":", " ", "a", "k", "t", "í", "v", "n", "y">>,
       <<>>,
       <<"D", "o", " ", "A", "k", "c", "i", "a", " ", "O", "d">>,
       <<"-", "-", " ", "-", "-", "-", "-", "-", " ", "-", "-">>,
       <<"2", "2", "/", "t", "c", "p", " ", "A", "L", "L", "O", "W", " ",
         "A", "n", "y", "w", "h", "e", "r", "e">>>>,
     <<>>
    }

\* What the two calls of subprocess.run do: one of them raises, `which ufw`
\* finds nothing, `sudo ufw status` fails, or it prints its report. stderr is
\* given as stderr.strip() returns it.
UfwEnvironments ==
    {[raises |-> r, message |-> "", which_rc |-> 0, rc |-> 0,
      stdout |-> << >>, stderr |-> ""] :
        r \in {"TimeoutExpired", "PermissionError", "FileNotFoundError"}}
    \cup {[raises |-> "OSError", message |-> "[Errno 12] Cannot allocate memory",
           which_rc |-> 0, rc |-> 0, stdout |-> << >>, stderr |-> ""]}
    \cup {[raises |-> "none", message |-> "", which_rc |-> 1, rc |-> 0,
           stdout |-> << >>, stderr |-> ""]}
    \cup {[raises |-> "none", message |-> "", which_rc |-> 0, rc |-> 1,
           stdout |-> << >>,
           stderr |-> "ERROR: You need to be root to run this script"]}
    \cup {[raises |-> "none", message |-> "", which_rc |-> 0, rc |-> 0,
           stdout |-> o, stderr |-> ""] : o \in UfwOutputs}

\* run(params) of firewallCheck.py in the environment env
firewallCheck_run(params, env) ==
    LET check_rules == Get(params, "check_rules", FALSE)
        require_active == Get(params, "require_active", TRUE)
        output == Strip(env.stdout)
        is_active == IsActive(output)
        rules == IF is_active /\ check_rules
                 THEN extract_firewall_rules(output) ELSE << >>
    IN  IF env.raises = "TimeoutExpired"
        THEN [status |-> "ERROR", handler |-> "TimeoutExpired"]
        ELSE IF env.raises = "PermissionError"
        THEN [status |-> "ERROR", handler |-> "PermissionError"]
        ELSE IF env.raises = "FileNotFoundError"
        THEN [status |-> "ERROR", handler |-> "FileNotFoundError"]
        ELSE IF env.raises # "none"
        THEN [status |-> "ERROR", handler |-> "Exception", error |-> env.message]
        ELSE IF env.which_rc # 0
        THEN [status |-> "ERROR", severity |-> "HIGH"]
        ELSE IF env.rc # 0
        THEN [status |-> "ERROR", error |-> env.stderr]
        ELSE IF ~is_active /\ require_active
        THEN [status |-> "FAIL", firewall_status |-> "inactive",
              severity |-> "HIGH"]
        ELSE IF is_active
        THEN IF check_rules /\ rules # << >>
             THEN [status |-> "PASS", firewall_status |-> "active",
                   severity |-> "INFO", active_rules |-> rules,
                   rules_count |-> Len(rules)]
             ELSE [status |-> "PASS", firewall_status |-> "active",
                   severity |-> "INFO"]
        ELSE [status |-> "WARNING", firewall_output |-> output]

\* The outcomes of the call module.run(params): the run of firewallCheck.py
\* returns what it makes of its environment, which the outcome keeps next to
\* the value; calling another function returns or raises as the check
\* decides; calling an integer raises TypeError.
RunOutcomes(module, params) ==
    IF "extract_firewall_rules" \in DOMAIN module.dict
    THEN {[kind |-> "return", env |-> e,
           value |-> [type |-> "dict", value |-> firewallCheck_run(params, e)]] :
            e \in UfwEnvironments}
    ELSE IF module.dict["run"] = "function"
    THEN {[kind |-> "return", value |-> v] : v \in Payloads}
         \cup {[kind |-> "raise", exc |-> e] : e \in Raised}
    ELSE {[kind |-> "raise",
           exc |-> [cls |-> "TypeError",
                    args |-> <<"'int' object is not callable">>]]}

----------------------------------------------------------------------------
(* The configurations the model is run on. *)

Names == {"A", "B"}

Files == {"ok.py", "attr.py", "norun.py", "bad.py", "gone.py"}

\* The entries of the checks list. A disabled entry's file is never read, so
\* disabled entries are enumerated with one file.
CheckSpecs ==
    {[name |-> n, file |-> f, enabled |-> TRUE] : n \in Names, f \in Files}
    \cup {[name |-> n, file |-> "ok.py", enabled |-> TRUE,
           parameters |-> [verbose |-> TRUE]] : n \in Names}
    \cup {[name |-> n, file |-> "ok.py", enabled |-> FALSE] : n \in Names}
    \cup {[name |-> n, file |-> "ok.py"] : n \in Names}

CheckLists == UNION {[1..n -> CheckSpecs] : n \in 0..MaxChecks}

ReportOptions ==
    {EmptyDict,
     [save_results |-> FALSE],
     [save_results |-> TRUE],
     [save_results |-> TRUE, output_file |-> "out.json"],
     [save_results |-> TRUE, output_file |-> "/ro/out.json"]}

DirectoryOptions == {EmptyDict, [tests_directory |-> "t"]}

\* The configuration documents: JSON objects with or without a checks list,
\* whose entries are objects with a name and a file.
Configs ==
    {d @@ r : d \in DirectoryOptions, r \in ReportOptions}
    \cup {[tests |-> l] @@ d @@ r :
            l \in CheckLists, d \in DirectoryOptions, r \in ReportOptions}

\* What config_path holds: nothing, a file that cannot be opened for reading,
\* text that is not JSON, or a configuration document.
ConfigFiles ==
    {[kind |-> "absent"], [kind |-> "denied"], [kind |-> "malformed"]}
    \cup {[kind |-> "ok", content |-> c] : c \in Configs}

----------------------------------------------------------------------------
(* EnumerationFramework. Each method is an operator from the object's state *)
(* and the method's inputs to what the call leaves behind: its return value *)
(* (ret), the fields it assigns and the lines it prints (printed).          *)

\* load_config: open() raises FileNotFoundError for an absent file and
\* PermissionError for one that may not be read, json.load raises
\* JSONDecodeError; the method handles the first and the last. raised is the
\* class of the exception that leaves the method, "none" when it returns.
load_config(file) ==
    CASE file.kind = "ok" ->
            [raised |-> "none", ret |-> TRUE, config |-> file.content,
             printed |-> << <<"[+] Configuration loaded from", ConfigPath>> >>]
      [] file.kind = "absent" ->
            [raised |-> "none", ret |-> FALSE, config |-> EmptyDict,
             printed |-> << <<"[!] Configuration file not found:", ConfigPath>> >>]
      [] file.kind = "malformed" ->
            [raised |-> "none", ret |-> FALSE, config |-> EmptyDict,
             printed |-> << <<"[!] Error parsing configuration file:",
                             "Expecting value">> >>]
      [] file.kind = "denied" ->
            [raised |-> "PermissionError", ret |-> FALSE, config |-> EmptyDict,
             printed |-> << >>]

\* load_test_module without its try/except: the failure of exec_module leaves
\* the method
load_test_module_NoCatch(test_path) ==
    LET source == FileSystem[test_path] IN
    IF source.exec = "ok"
    THEN [raised |-> "none", ret |-> [type |-> "module", dict |-> source.dict],
          printed |-> << >>]
    ELSE [raised |-> source.exc.cls, ret |-> NoneValue, printed |-> << >>]

\* load_test_module: the module object, or None after printing the failure
\* exec_module raised; raised is the class of an exception that leaves the
\* method, "none" when it returns
load_test_module(test_path) ==
    LET source == FileSystem[test_path] IN
    IF source.exec = "ok"
    THEN [raised |-> "none", ret |-> [type |-> "module", dict |-> source.dict],
          printed |-> << >>]
    ELSE [raised |-> "none", ret |-> NoneValue,
          printed |-> << <<"[!] Error loading test module", test_path,
                          Str(source.exc)>> >>]

\* IsEnabled with the default of a missing 'enabled' taken as True
IsEnabled_DefaultTrue(test_config) == Get(test_config, "enabled", TRUE)

\* not test_config.get('enabled', False), negated
IsEnabled(test_config) == Get(test_config, "enabled", FALSE)

\* os.path.exists(test_path)
Exists(test_path) == test_path \in DOMAIN FileSystem

\* module and hasattr(module, 'run')
HasRun(module) == module.type = "module" /\ "run" \in DOMAIN module.dict

\* The body of the loop of discover_tests for the entry at position pos of the
\* checks list. acc holds self.tests and the lines printed so far. An item of
\* self.tests carries, besides 'module' and 'config', the position pos of the
\* entry it was loaded from (history, not read by the program). acc.raised is
\* the class of an exception that left the body, "none" otherwise.
discover_entry(tests_dir, test_config, pos, acc) ==
    IF ~IsEnabled(test_config)
    THEN [acc EXCEPT !.printed =
            Append(@, <<"[-] Skipping disabled test:", test_config["name"]>>)]
    ELSE
        LET test_file == test_config["file"]
            test_path == PathJoin(tests_dir, test_file)
        IN  IF ~Exists(test_path)
            THEN [acc EXCEPT !.printed =
                    Append(@, <<"[!] Test file not found:", test_path>>)]
            ELSE
                LET loaded == load_test_module(test_path)
                    module == loaded.ret
                IN  IF loaded.raised # "none"
                    THEN [acc EXCEPT !.raised = loaded.raised,
                                     !.printed = @ \o loaded.printed]
                    ELSE IF HasRun(module)
                    THEN [acc EXCEPT !.tests =
                            DictSet(@, test_config["name"],
                                    [module |-> module, config |-> test_config,
                                     pos |-> pos]),
                          !.printed =
                            Append(@ \o loaded.printed,
                                   <<"[+] Loaded test:", test_config["name"]>>)]
                    ELSE [acc EXCEPT !.printed =
                            Append(@ \o loaded.printed,
                                   <<"[!] Test module missing 'run' function",
                                     test_file>>)]

\* The loop of discover_tests with break in place of continue for a file
\* that is not found
RECURSIVE discover_loop_Break(_, _, _, _)
discover_loop_Break(tests_dir, list, pos, acc) ==
    IF pos > Len(list) \/ acc.raised # "none" THEN acc
    ELSE IF IsEnabled(list[pos]) /\ ~Exists(PathJoin(tests_dir, list[pos]["file"]))
    THEN discover_entry(tests_dir, list[pos], pos, acc)
    ELSE discover_loop_Break(tests_dir, list, pos + 1,
                             discover_entry(tests_dir, list[pos], pos, acc))

\* for test_config in self.config['tests']
RECURSIVE discover_loop(_, _, _, _)
discover_loop(tests_dir, list, pos, acc) ==
    IF pos > Len(list) \/ acc.raised # "none" THEN acc
    ELSE discover_loop(tests_dir, list, pos + 1,
                       discover_entry(tests_dir, list[pos], pos, acc))

\* discover_tests returning whether the checks list, not self.tests, is
\* non-empty
discover_tests_ListNonEmpty(cfg, loaded) ==
    IF "tests" \notin DOMAIN cfg
    THEN [raised |-> "none", ret |-> FALSE, tests |-> loaded,
          printed |-> << <<"[!] No tests defined in configuration">> >>]
    ELSE
        LET tests_dir == Get(cfg, "tests_directory", "tests")
            acc == discover_loop(tests_dir, cfg["tests"], 1,
                                 [raised |-> "none", tests |-> loaded,
                                  printed |-> << >>])
        IN  [raised |-> acc.raised, ret |-> Len(cfg["tests"]) > 0,
             tests |-> acc.tests, printed |-> acc.printed]

\* discover_tests, called with self.config = cfg and self.tests = loaded
discover_tests(cfg, loaded) ==
    IF "tests" \notin DOMAIN cfg
    THEN [raised |-> "none", ret |-> FALSE, tests |-> loaded,
          printed |-> << <<"[!] No tests defined in configuration">> >>]
    ELSE
        LET tests_dir == Get(cfg, "tests_directory", "tests")
            acc == discover_loop(tests_dir, cfg["tests"], 1,
                                 [raised |-> "none", tests |-> loaded,
                                  printed |-> << >>])
        IN  [raised |-> acc.raised, ret |-> Len(acc.tests) > 0,
             tests |-> acc.tests, printed |-> acc.printed]

\* The CheckResult run_test stores when module.run returned result
\* SuccessResult with a status of its own
SuccessResult_StatusOk(result, t) ==
    [status |-> "ok", result |-> result, timestamp |-> Isoformat(t)]

SuccessResult(result, t) ==
    [status |-> "success", result |-> result, timestamp |-> Isoformat(t)]

\* ErrorResult storing the class name of e in place of str(e)
ErrorResult_ClassName(e, t) ==
    [status |-> "error", error |-> e.cls, timestamp |-> Isoformat(t)]

\* ErrorResult that also carries an empty payload
ErrorResult_WithResult(e, t) ==
    [status |-> "error", result |-> NoneValue, error |-> Str(e),
     timestamp |-> Isoformat(t)]

\* The CheckResult run_test stores when module.run raised e
ErrorResult(e, t) ==
    [status |-> "error", error |-> Str(e), timestamp |-> Isoformat(t)]

\* the banner run_test prints before it calls module.run
Banner(test_name) == <<"Running:", test_name>>

\* run_test without its try/except: what module.run raises leaves the method
run_test_NoCatch(test_name, test_info, outcome, res, t) ==
    LET banner == <<Banner(test_name)>> IN
    IF outcome.kind = "return"
    THEN [raised |-> "none",
          results |-> DictSet(res, test_name, SuccessResult(outcome.value, t)),
          printed |-> banner]
    ELSE [raised |-> outcome.exc.cls, results |-> res, printed |-> banner]

\* run_test with a handler that prints the failure and stores nothing
run_test_PrintOnly(test_name, test_info, outcome, res, t) ==
    LET banner == <<Banner(test_name)>> IN
    IF outcome.kind = "return"
    THEN [raised |-> "none",
          results |-> DictSet(res, test_name, SuccessResult(outcome.value, t)),
          printed |-> banner]
    ELSE [raised |-> "none", results |-> res,
          printed |-> Append(banner, <<"[!] Error executing test", test_name,
                                       Str(outcome.exc)>>)]

\* run_test, with the outcome of its call module.run(params) and the clock
\* reading t: the new self.results and the lines printed. raised is the class
\* of an exception that leaves the method, "none" when it returns.
run_test(test_name, test_info, outcome, res, t) ==
    LET banner == <<Banner(test_name)>> IN
    IF outcome.kind = "return"
    THEN [raised |-> "none",
          results |-> DictSet(res, test_name, SuccessResult(outcome.value, t)),
          printed |-> banner]
    ELSE [raised |-> "none",
          results |-> DictSet(res, test_name, ErrorResult(outcome.exc, t)),
          printed |-> Append(banner, <<"[!] Error executing test", test_name,
                                       Str(outcome.exc)>>)]

\* config.get('parameters', {}) of run_test
ParamsOf(test_info) == Get(test_info.config, "parameters", EmptyDict)

\* json.dump raises TypeError for a set
Serializable(v) == v.type # "set"

\* json.dump writing None as an empty object
JsonValue_NoneAsObject(v) ==
    IF v = NoneValue THEN [json |-> "object", members |-> EmptyDict]
    ELSE IF "items" \in DOMAIN v
    THEN [json |-> "object",
          members |->
            [m \in {ToString(v.items[j].key) : j \in 1..Len(v.items)} |->
                v.items[CHOOSE j \in 1..Len(v.items) :
                            ToString(v.items[j].key) = m].value]]
    ELSE [json |-> "object", members |-> v.value]

\* json.dump of one value a check returned: None is written as null, a dict as
\* an object whose member names are the keys, an integer key as its digits
JsonValue(v) ==
    IF v = NoneValue THEN [json |-> "null"]
    ELSE IF "items" \in DOMAIN v
    THEN [json |-> "object",
          members |->
            [m \in {ToString(v.items[j].key) : j \in 1..Len(v.items)} |->
                v.items[CHOOSE j \in 1..Len(v.items) :
                            ToString(v.items[j].key) = m].value]]
    ELSE [json |-> "object", members |-> v.value]

\* json.load of one value: null is read as None, an object as a dict whose
\* keys are the member names
JsonLoadValue(j) ==
    IF j.json = "null" THEN NoneValue
    ELSE [type |-> "dict", value |-> j.members]

\* json.dump(self.results): the members of the document written, in the
\* insertion order of the keys
JsonDump(res) ==
    [j \in 1..Len(res) |->
        [name |-> res[j].name,
         value |-> IF "result" \in DOMAIN res[j].value
                   THEN [res[j].value EXCEPT !["result"] = JsonValue(@)]
                   ELSE res[j].value]]

\* json.load of a document json.dump wrote in full: a dict in the order of the
\* members
JsonLoad(items) ==
    [j \in 1..Len(items) |->
        [name |-> items[j].name,
         value |-> IF "result" \in DOMAIN items[j].value
                   THEN [items[j].value EXCEPT !["result"] = JsonLoadValue(@)]
                   ELSE items[j].value]]

\* the position of the first result json.dump cannot write, 0 if there is none
FirstUnserializable(res) ==
    LET bad == {j \in 1..Len(res) :
                  /\ "result" \in DOMAIN res[j].value
                  /\ ~Serializable(res[j].value["result"])}
    IN  IF bad = {} THEN 0 ELSE CHOOSE j \in bad : \A k \in bad : j <= k

\* save_results without its try/except: the failure of open or json.dump
\* leaves the method
save_results_NoCatch(cfg, res, files) ==
    LET output_file == Get(cfg, "output_file", "enumeration_results.json")
        bad == FirstUnserializable(res)
    IN  IF ~Writable(output_file)
        THEN [raised |-> "PermissionError", disk |-> files, printed |-> << >>]
        ELSE IF bad # 0
        THEN [raised |-> "TypeError",
              disk |-> (output_file :>
                          [complete |-> FALSE,
                           items |-> JsonDump(SubSeq(res, 1, bad - 1))]) @@ files,
              printed |-> << >>]
        ELSE [raised |-> "none",
              disk |-> (output_file :>
                          [complete |-> TRUE, items |-> JsonDump(res)]) @@ files,
              printed |-> << <<"Results saved to:", output_file>> >>]

\* save_results: the files on disk afterwards and the lines printed. open
\* truncates the file; json.dump writes the members in order and raises at the
\* first value it cannot write, which leaves the document cut off there.
\* raised is the class of an exception that leaves the method.
save_results(cfg, res, files) ==
    LET output_file == Get(cfg, "output_file", "enumeration_results.json")
        bad == FirstUnserializable(res)
    IN  IF ~Writable(output_file)
        THEN [raised |-> "none", disk |-> files,
              printed |-> << <<"Error saving results:", "Permission denied">> >>]
        ELSE IF bad # 0
        THEN [raised |-> "none",
              disk |-> (output_file :>
                          [complete |-> FALSE,
                           items |-> JsonDump(SubSeq(res, 1, bad - 1))]) @@ files,
              printed |-> << <<"Error saving results:",
                              "Object of type set is not JSON serializable">> >>]
        ELSE [raised |-> "none",
              disk |-> (output_file :>
                          [complete |-> TRUE, items |-> JsonDump(res)]) @@ files,
              printed |-> << <<"Results saved to:", output_file>> >>]

CountStatus(res, status) ==
    Cardinality({j \in 1..Len(res) : res[j].value.status = status})

\* print_summary saving the results unless told not to
print_summary_SaveByDefault(cfg, res, files) ==
    LET summary == << <<"ENUMERATION SUMMARY", ToString(Len(res)),
                        ToString(CountStatus(res, "success")),
                        ToString(CountStatus(res, "error"))>> >>
    IN  IF Get(cfg, "save_results", TRUE)
        THEN LET saved == save_results(cfg, res, files)
             IN  [raised |-> saved.raised, disk |-> saved.disk,
                  printed |-> summary \o saved.printed]
        ELSE [raised |-> "none", disk |-> files, printed |-> summary]

\* print_summary, save_results included
print_summary(cfg, res, files) ==
    LET summary == << <<"ENUMERATION SUMMARY", ToString(Len(res)),
                        ToString(CountStatus(res, "success")),
                        ToString(CountStatus(res, "error"))>> >>
    IN  IF Get(cfg, "save_results", FALSE)
        THEN LET saved == save_results(cfg, res, files)
             IN  [raised |-> saved.raised, disk |-> saved.disk,
                  printed |-> summary \o saved.printed]
        ELSE [raised |-> "none", disk |-> files, printed |-> summary]

----------------------------------------------------------------------------
(* main(): one action per call it makes. *)

Init ==
    /\ pc = "load_config"
    /\ cfgFile \in ConfigFiles
    /\ config = EmptyDict
    /\ tests = << >>
    /\ results = << >>
    /\ it = 1
    /\ now = 0
    /\ out = << <<"Start">> >>
    /\ disk = EmptyDict
    /\ started = << >>
    /\ invoked = << >>
    /\ uncaught = "none"
    /\ exitCode = << >>

\* if not framework.load_config(): sys.exit(1)
CallLoadConfig ==
    /\ pc = "load_config"
    /\ LET r == load_config(cfgFile) IN
        /\ config' = r.config
        /\ out' = out \o r.printed
        /\ uncaught' = r.raised
        /\ IF r.raised = "none" /\ r.ret
           THEN pc' = "discover_tests" /\ exitCode' = exitCode
           ELSE pc' = "exited" /\ exitCode' = <<1>>
    /\ UNCHANGED <<cfgFile, tests, results, it, now, disk, started, invoked>>

\* if not framework.discover_tests(): print(...); sys.exit(1)
CallDiscoverTests ==
    /\ pc = "discover_tests"
    /\ LET r == discover_tests(config, tests) IN
        /\ tests' = r.tests
        /\ uncaught' = r.raised
        /\ IF r.raised # "none"
           THEN /\ out' = out \o r.printed
                /\ pc' = "exited"
                /\ exitCode' = <<1>>
           ELSE IF r.ret
           THEN /\ out' = out \o r.printed
                /\ pc' = "run_all_tests"
                /\ exitCode' = exitCode
           ELSE /\ out' = Append(out \o r.printed, <<"No tests loaded. Exiting.">>)
                /\ pc' = "exited"
                /\ exitCode' = <<1>>
    /\ UNCHANGED <<cfgFile, config, results, it, now, disk, started, invoked>>

\* framework.run_all_tests(), up to the loop
CallRunAllTests ==
    /\ pc = "run_all_tests"
    /\ IF Len(tests) = 0
       THEN /\ out' = Append(out, <<"[!] No tests loaded to execute">>)
            /\ pc' = "complete"
       ELSE /\ out' = Append(out, <<"[+] Starting enumeration", ToString(Len(tests))>>)
            /\ pc' = "run_test"
    /\ it' = 1
    /\ UNCHANGED <<cfgFile, config, tests, results, now, disk, started,
                   invoked, uncaught, exitCode>>

\* run_all_tests starting every check without waiting for the one before it
CallRunTest_Async ==
    /\ pc \in {"run_test", "in_run"}
    /\ Len(started) < Len(tests)
    /\ out' = Append(out, Banner(tests[Len(started) + 1].name))
    /\ started' = Append(started,
                         [name |-> tests[Len(started) + 1].name,
                          pos |-> tests[Len(started) + 1].value.pos,
                          params |-> ParamsOf(tests[Len(started) + 1].value)])
    /\ pc' = "in_run"
    /\ UNCHANGED <<cfgFile, config, tests, results, it, now, disk, invoked,
                   uncaught, exitCode>>

\* one iteration of the loop of run_all_tests, self.run_test(test_name,
\* test_info), up to its call module.run(params): the banner is printed and
\* the check starts to run
CallRunTest ==
    /\ pc = "run_test"
    /\ it <= Len(tests)
    /\ out' = Append(out, Banner(tests[it].name))
    /\ started' = Append(started,
                         [name |-> tests[it].name, pos |-> tests[it].value.pos,
                          params |-> ParamsOf(tests[it].value)])
    /\ pc' = "in_run"
    /\ UNCHANGED <<cfgFile, config, tests, results, it, now, disk, invoked,
                   uncaught, exitCode>>

\* the rest of run_test once module.run(params) is over, by a return or a
\* raise, and the step of the loop to the next item of self.tests
RunOver ==
    /\ LET test_name == tests[it].name
           test_info == tests[it].value
           params == ParamsOf(test_info)
       IN  \E outcome \in RunOutcomes(test_info.module, params) :
             LET r == run_test(test_name, test_info, outcome, results, now + 1) IN
               /\ results' = r.results
               /\ out' = out \o Tail(r.printed)
               /\ invoked' = Append(invoked,
                                    [name |-> test_name, pos |-> test_info.pos,
                                     params |-> params, outcome |-> outcome])
               /\ uncaught' = r.raised
               /\ IF r.raised # "none"
                  THEN pc' = "exited" /\ exitCode' = <<1>> /\ it' = it
                  ELSE /\ it' = it + 1
                       /\ exitCode' = exitCode
                       /\ pc' = IF it + 1 > Len(tests) THEN "print_summary"
                                 ELSE "run_test"
    /\ now' = now + 1
    /\ UNCHANGED <<cfgFile, config, tests, disk, started>>

\* run_test with a watchdog: a call that never returns is abandoned and
\* recorded like one that is over
RunReturns_Watchdog == pc \in {"in_run", "hung"} /\ RunOver

\* the call module.run(params) is over: run_test goes on only then
RunReturns == pc = "in_run" /\ RunOver

\* the call module.run(params) never returns: run_test, and with it the
\* process, waits for it for ever (the check is a function; calling an
\* integer raises at once)
RunHangs ==
    /\ pc = "in_run"
    /\ tests[it].value.module.dict["run"] = "function"
    /\ pc' = "hung"
    /\ UNCHANGED <<cfgFile, config, tests, results, it, now, out, disk, started,
                   invoked, uncaught, exitCode>>

\* self.print_summary() at the end of run_all_tests
CallPrintSummary ==
    /\ pc = "print_summary"
    /\ LET r == print_summary(config, results, disk) IN
        /\ disk' = r.disk
        /\ out' = out \o r.printed
        /\ uncaught' = r.raised
        /\ IF r.raised # "none"
           THEN pc' = "exited" /\ exitCode' = <<1>>
           ELSE pc' = "complete" /\ exitCode' = exitCode
    /\ UNCHANGED <<cfgFile, config, tests, results, it, now, started, invoked>>

\* Complete with an exit status that reports failed checks
Complete_FailOnError ==
    /\ pc = "complete"
    /\ out' = Append(out, <<"Enumeration complete!">>)
    /\ pc' = "exited"
    /\ exitCode' = IF CountStatus(results, "error") > 0 THEN <<1>> ELSE <<0>>
    /\ UNCHANGED <<cfgFile, config, tests, results, it, now, disk, started,
                   invoked, uncaught>>

\* print("\nEnumeration complete!") and the return of main()
Complete ==
    /\ pc = "complete"
    /\ out' = Append(out, <<"Enumeration complete!">>)
    /\ pc' = "exited"
    /\ exitCode' = <<0>>
    /\ UNCHANGED <<cfgFile, config, tests, results, it, now, disk, started,
                   invoked, uncaught>>

Next ==
    \/ CallLoadConfig
    \/ CallDiscoverTests
    \/ CallRunAllTests
    \/ CallRunTest
    \/ RunReturns
    \/ RunHangs
    \/ CallPrintSummary
    \/ Complete

Spec == Init /\ [][Next]_vars

\* Runs over longer checks lists: every entry is enabled and names a module
\* with an attribute run, so that a name can be configured and loaded again
\* after another one. The interpreter keeps executing the process, one step
\* after the other, as long as there is a step to take.
MaxLiveChecks == 3

LiveCheckSpecs ==
    {[name |-> n, file |-> f, enabled |-> TRUE] :
        n \in Names, f \in {"ok.py", "attr.py"}}

LiveConfigFiles ==
    {[kind |-> "ok", content |-> [tests |-> l] @@ r] :
        l \in UNION {[1..n -> LiveCheckSpecs] : n \in 0..MaxLiveChecks},
        r \in {EmptyDict, [save_results |-> TRUE]}}

InitLive ==
    /\ pc = "load_config"
    /\ cfgFile \in LiveConfigFiles
    /\ config = EmptyDict
    /\ tests = << >>
    /\ results = << >>
    /\ it = 1
    /\ now = 0
    /\ out = << <<"Start">> >>
    /\ disk = EmptyDict
    /\ started = << >>
    /\ invoked = << >>
    /\ uncaught = "none"
    /\ exitCode = << >>

SpecLive == InitLive /\ [][Next]_vars /\ WF_vars(Next)

\* Runs of the firewall check: the one enabled CheckSpec names
\* firewallCheck.py and configures no parameters, an empty mapping, or any
\* of require_active and check_rules.
FirewallParameters ==
    {EmptyDict}
    \cup {[check_rules |-> c] : c \in BOOLEAN}
    \cup {[require_active |-> r] : r \in BOOLEAN}
    \cup {[check_rules |-> c, require_active |-> r] : c, r \in BOOLEAN}

FirewallCheckSpecs ==
    {[name |-> "Firewall", file |-> "firewallCheck.py", enabled |-> TRUE]}
    \cup {[name |-> "Firewall", file |-> "firewallCheck.py", enabled |-> TRUE,
           parameters |-> p] : p \in FirewallParameters}

FirewallConfigFiles ==
    {[kind |-> "ok", content |-> [tests |-> <<c>>]] : c \in FirewallCheckSpecs}

InitFirewall ==
    /\ pc = "load_config"
    /\ cfgFile \in FirewallConfigFiles
    /\ config = EmptyDict
    /\ tests = << >>
    /\ results = << >>
    /\ it = 1
    /\ now = 0
    /\ out = << <<"Start">> >>
    /\ disk = EmptyDict
    /\ started = << >>
    /\ invoked = << >>
    /\ uncaught = "none"
    /\ exitCode = << >>

SpecFirewall == InitFirewall /\ [][Next]_vars

----------------------------------------------------------------------------
(* Vocabulary of the properties: the configuration as written, read from   *)
(* the configuration file and the file system, not from what the program   *)
(* made of them.                                                           *)

\* the checks list of the configuration document, empty when there is none
Configured ==
    IF cfgFile.kind = "ok" /\ "tests" \in DOMAIN cfgFile.content
    THEN cfgFile.content["tests"] ELSE << >>

ChecksDirectory ==
    IF cfgFile.kind = "ok" /\ "tests_directory" \in DOMAIN cfgFile.content
    THEN cfgFile.content["tests_directory"] ELSE "tests"

SpecDisabled(k) ==
    "enabled" \notin DOMAIN Configured[k] \/ Configured[k]["enabled"] = FALSE

SpecPath(k) == ChecksDirectory \o "/" \o Configured[k]["file"]

\* enabled, and nothing at the resolved path
SpecMissing(k) == ~SpecDisabled(k) /\ SpecPath(k) \notin DOMAIN FileSystem

SpecPresent(k) == ~SpecDisabled(k) /\ SpecPath(k) \in DOMAIN FileSystem

\* enabled, the file exists and executing it fails
SpecLoadFails(k) == SpecPresent(k) /\ FileSystem[SpecPath(k)].exec = "raise"

\* enabled, the file exists and loads, and the module has no attribute run
SpecNoRun(k) ==
    /\ SpecPresent(k)
    /\ FileSystem[SpecPath(k)].exec = "ok"
    /\ "run" \notin DOMAIN FileSystem[SpecPath(k)].dict

\* enabled, the file exists and loads, and the module has an attribute run
SpecHasRun(k) ==
    /\ SpecPresent(k)
    /\ FileSystem[SpecPath(k)].exec = "ok"
    /\ "run" \in DOMAIN FileSystem[SpecPath(k)].dict

\* ... and run is not callable
SpecRunNotCallable(k) ==
    SpecHasRun(k) /\ FileSystem[SpecPath(k)].dict["run"] # "function"

\* ... and run is a function
SpecValid(k) ==
    SpecHasRun(k) /\ FileSystem[SpecPath(k)].dict["run"] = "function"

\* the entry at position k of the checks list is bound in self.tests
LoadedFrom(k) == \E j \in 1..Len(tests) : tests[j].value.pos = k

\* the implementation of the entry at position k has been invoked
InvokedFrom(k) == \E i \in 1..Len(started) : started[i].pos = k

\* a result under the entry's name, if any, stems from the invocation of an
\* enabled entry at another position
NoResultFrom(k) ==
    HasKey(results, Configured[k]["name"]) =>
        \E i \in 1..Len(invoked) :
            /\ invoked[i].name = Configured[k]["name"]
            /\ invoked[i].pos # k
            /\ ~SpecDisabled(invoked[i].pos)

Printed(line) == \E n \in 1..Len(out) : out[n] = line

\* discover_tests has been called and is over
Discovered == cfgFile.kind = "ok" /\ pc \notin {"load_config", "discover_tests"}

\* the loop of run_all_tests is over
RunCompleted ==
    \/ pc \in {"print_summary", "complete"}
    \/ pc = "exited" /\ exitCode = <<0>>

----------------------------------------------------------------------------
(* Properties. *)

\* C1: a failure raised by the check at position i of the loaded checks never
\* prevents a later check from being invoked: no exception leaves run_test, and
\* every check at a later position j either has been invoked, in its turn, with
\* a result recorded under its name, or the loop is running and the check it
\* is at is the first one whose invocation is not over yet.
C1_StrictIsolation ==
    \A i \in 1..Len(invoked) :
        invoked[i].outcome.kind = "raise" =>
            /\ uncaught = "none"
            /\ invoked[i].pos = tests[i].value.pos
            /\ \A j \in (i + 1)..Len(tests) :
                IF j <= Len(invoked)
                THEN /\ invoked[j].pos = tests[j].value.pos
                     /\ HasKey(results, tests[j].name)
                ELSE /\ pc \in {"run_test", "in_run", "hung"}
                     /\ it = Len(invoked) + 1
                     /\ exitCode = << >>

\* C1 witness: the first of two loaded checks raised, the second was invoked
\* afterwards and returned, and the run is over.
C1_Witness ==
    /\ pc = "exited"
    /\ Len(invoked) = 2
    /\ invoked[1].outcome.kind = "raise"
    /\ invoked[2].outcome.kind = "return"
    /\ HasKey(results, invoked[2].name)

\* C2 as stated: for every invocation that raised, the result recorded under
\* the check's name has status 'error' and an error message that is the
\* stringified failure and is not empty.
C2_ErrorMessageNonEmpty ==
    \A i \in 1..Len(invoked) :
        invoked[i].outcome.kind = "raise" =>
            /\ HasKey(results, invoked[i].name)
            /\ Lookup(results, invoked[i].name)["status"] = "error"
            /\ Lookup(results, invoked[i].name)["error"] = Str(invoked[i].outcome.exc)
            /\ Lookup(results, invoked[i].name)["error"] # ""

\* C2 as amended: for every invocation that raised, the result recorded under
\* the check's name has status 'error', no 'result', and an error message that
\* is str(e) of the failure; the message is not empty when the failure was
\* raised with one non-empty string argument.
C2_ErrorRecorded ==
    \A i \in 1..Len(invoked) :
        invoked[i].outcome.kind = "raise" =>
            /\ HasKey(results, invoked[i].name)
            /\ LET r == Lookup(results, invoked[i].name)
                   e == invoked[i].outcome.exc
               IN  /\ r["status"] = "error"
                   /\ "result" \notin DOMAIN r
                   /\ r["error"] = Str(e)
                   /\ (Len(e.args) = 1 /\ e.args[1] # "" => r["error"] # "")

\* C2 witness: a check raised KeyError('k') and the result under its name is
\* the error "'k'".
C2_Witness ==
    \E i \in 1..Len(invoked) :
        /\ invoked[i].outcome.kind = "raise"
        /\ invoked[i].outcome.exc = [cls |-> "KeyError", args |-> <<"k">>]
        /\ HasKey(results, invoked[i].name)
        /\ Lookup(results, invoked[i].name)["status"] = "error"
        /\ Lookup(results, invoked[i].name)["error"] = "'k'"

\* C3: when run_all_tests completes, the ResultSet holds exactly one
\* CheckResult for every loaded check and nothing else: its keys are the names
\* of self.tests, one entry per name, every loaded check was invoked once, and
\* every configured entry that loads has a result under its name.
C3_ExactlyOneResult ==
    RunCompleted =>
        /\ Keys(results) = Keys(tests)
        /\ Len(results) = Len(tests)
        /\ Cardinality(Keys(results)) = Len(results)
        /\ Len(invoked) = Len(tests)
        /\ \A j \in 1..Len(tests) : invoked[j].name = tests[j].name
        /\ \A k \in 1..Len(Configured) :
              SpecHasRun(k) => HasKey(results, Configured[k]["name"])

\* C3 witness: the run completed with two results, one for a check that raised
\* and one for a check that returned None.
C3_Witness ==
    /\ RunCompleted
    /\ Len(results) = 2
    /\ \E i \in 1..2 : invoked[i].outcome.kind = "raise"
    /\ \E i \in 1..2 : /\ invoked[i].outcome.kind = "return"
                       /\ invoked[i].outcome.value = NoneValue

\* C4 as stated: a CheckSpec with enabled = false, or without an enabled field,
\* is never loaded or invoked, and its name is never a key of the ResultSet.
C4_DisabledNameNeverInResultSet ==
    \A k \in 1..Len(Configured) :
        SpecDisabled(k) =>
            /\ ~LoadedFrom(k)
            /\ ~InvokedFrom(k)
            /\ ~HasKey(results, Configured[k]["name"])

\* C4 as amended: a CheckSpec with enabled = false, or without an enabled
\* field, is never loaded or invoked, it is reported as skipped once discovery
\* is over, and its name is a key of the ResultSet only through the invocation
\* of an enabled CheckSpec of the same name at another position.
C4_DisabledNeverRun ==
    \A k \in 1..Len(Configured) :
        SpecDisabled(k) =>
            /\ ~LoadedFrom(k)
            /\ ~InvokedFrom(k)
            /\ NoResultFrom(k)
            /\ Discovered =>
                  Printed(<<"[-] Skipping disabled test:", Configured[k]["name"]>>)

\* C4 witness: the run is over for a configuration of a check without an
\* enabled field and an enabled one of another name; only the latter has a
\* result.
C4_Witness ==
    /\ pc = "exited"
    /\ Len(Configured) = 2
    /\ "enabled" \notin DOMAIN Configured[1]
    /\ SpecValid(2)
    /\ Configured[1]["name"] # Configured[2]["name"]
    /\ Keys(results) = {Configured[2]["name"]}

\* C5: an enabled CheckSpec whose resolved file does not exist is skipped with
\* a diagnostic and never loaded or invoked, no failure leaves discover_tests,
\* and every other entry that loads is bound in self.tests; one entry that
\* loads and one with a missing file, in either order, give exactly one loaded
\* check.
C5_MissingFileSkipped ==
    Discovered =>
        /\ \A k \in 1..Len(Configured) :
              SpecMissing(k) =>
                /\ ~LoadedFrom(k)
                /\ ~InvokedFrom(k)
                /\ Printed(<<"[!] Test file not found:", SpecPath(k)>>)
                /\ uncaught = "none"
                /\ \A j \in 1..Len(Configured) :
                      SpecHasRun(j) => HasKey(tests, Configured[j]["name"])
        /\ \A k, j \in 1..Len(Configured) :
              Len(Configured) = 2 /\ SpecMissing(k) /\ SpecHasRun(j) =>
                Len(tests) = 1

\* C5 witness: discovery is over for a configuration whose first entry has a
\* missing file and whose second entry loads; one check is loaded, the second.
C5_Witness ==
    /\ Discovered
    /\ Len(Configured) = 2
    /\ SpecMissing(1)
    /\ SpecValid(2)
    /\ Len(tests) = 1
    /\ LoadedFrom(2)

\* C6 as stated: a CheckSpec whose file fails to load is reported and skipped,
\* the other entries are still processed, the failure does not end the run, and
\* the entry's name is never a key of the ResultSet.
C6_LoadFailureNameNeverInResultSet ==
    Discovered =>
        \A k \in 1..Len(Configured) :
            SpecLoadFails(k) =>
                /\ Printed(<<"[!] Error loading test module", SpecPath(k),
                             Str(FileSystem[SpecPath(k)].exc)>>)
                /\ ~LoadedFrom(k)
                /\ ~InvokedFrom(k)
                /\ uncaught = "none"
                /\ (exitCode = <<1>> => Len(tests) = 0)
                /\ \A j \in 1..Len(Configured) :
                      SpecHasRun(j) => HasKey(tests, Configured[j]["name"])
                /\ ~HasKey(results, Configured[k]["name"])

\* C6 as amended: a CheckSpec whose file fails to load is reported and skipped,
\* the other entries are still processed, the failure does not end the run
\* (no exception leaves discover_tests, and the process exits with 1 only when
\* no check at all was loaded), and the entry's name is a key of the ResultSet
\* only through the invocation of another CheckSpec of the same name.
C6_LoadFailureSkipped ==
    Discovered =>
        \A k \in 1..Len(Configured) :
            SpecLoadFails(k) =>
                /\ Printed(<<"[!] Error loading test module", SpecPath(k),
                             Str(FileSystem[SpecPath(k)].exc)>>)
                /\ ~LoadedFrom(k)
                /\ ~InvokedFrom(k)
                /\ uncaught = "none"
                /\ (exitCode = <<1>> => Len(tests) = 0)
                /\ \A j \in 1..Len(Configured) :
                      SpecHasRun(j) => HasKey(tests, Configured[j]["name"])
                /\ NoResultFrom(k)

\* C6 witness: the run is over for a configuration whose first entry fails to
\* load and whose second entry, of another name, loads; only the latter has a
\* result.
C6_Witness ==
    /\ pc = "exited"
    /\ exitCode = <<0>>
    /\ Len(Configured) = 2
    /\ SpecLoadFails(1)
    /\ SpecValid(2)
    /\ Configured[1]["name"] # Configured[2]["name"]
    /\ Keys(results) = {Configured[2]["name"]}

\* C7 as stated: only an implementation with a callable run becomes a loaded
\* check; a CheckSpec whose module has no run, or a run that is not callable,
\* is never loaded or invoked and no result stems from it.
C7_OnlyCallableRunLoaded ==
    /\ \A j \in 1..Len(tests) : tests[j].value.module.dict["run"] = "function"
    /\ \A k \in 1..Len(Configured) :
          SpecNoRun(k) \/ SpecRunNotCallable(k) =>
            /\ ~LoadedFrom(k)
            /\ ~InvokedFrom(k)
            /\ NoResultFrom(k)

\* C8: discover_tests reports that no check is available exactly when
\* self.tests is empty, which is exactly when the configuration has no checks
\* list or none of its entries loads; then the process exits with code 1, no
\* check is invoked, the ResultSet stays empty, no summary is printed and no
\* report is written; otherwise the process does not exit with code 1.
C8_NoChecksAvailable ==
    Discovered =>
        LET reported == Printed(<<"No tests loaded. Exiting.">>) IN
        /\ reported <=> Len(tests) = 0
        /\ Len(tests) = 0 <=> \A k \in 1..Len(Configured) : ~SpecHasRun(k)
        /\ reported =>
              /\ pc = "exited"
              /\ exitCode = <<1>>
              /\ invoked = << >>
              /\ results = << >>
              /\ disk = EmptyDict
              /\ \A n \in 1..Len(out) : out[n][1] # "ENUMERATION SUMMARY"
        /\ ~reported => exitCode # <<1>>

\* C8 witness: the process exited with code 1 after discover_tests skipped
\* both entries of a two-entry checks list.
C8_Witness ==
    /\ pc = "exited"
    /\ exitCode = <<1>>
    /\ Len(Configured) = 2
    /\ Printed(<<"No tests loaded. Exiting.">>)

\* C9 as stated: for a configuration path that cannot be read (no file there,
\* or a file that may not be opened), load_config reports ConfigNotFound and
\* returns failure, and the process exits with code 1 without discovering,
\* running or reporting anything.
C9_UnreadableConfigNotFound ==
    cfgFile.kind \in {"absent", "denied"} /\ pc # "load_config" =>
        /\ uncaught = "none"
        /\ Printed(<<"[!] Configuration file not found:", ConfigPath>>)
        /\ pc = "exited"
        /\ exitCode = <<1>>
        /\ tests = << >>
        /\ invoked = << >>
        /\ results = << >>
        /\ disk = EmptyDict

\* C10: once the process has exited its exit code is 0 or 1, and it is 0
\* exactly when the configuration loaded and at least one check was loaded,
\* whatever the checks returned or raised; before that it has no exit code.
C10_ExitCode ==
    /\ pc = "exited" =>
          /\ exitCode \in {<<0>>, <<1>>}
          /\ exitCode = <<0>> <=> cfgFile.kind = "ok" /\ Len(tests) > 0
          /\ exitCode = <<0>> <=>
                cfgFile.kind = "ok" /\ \E k \in 1..Len(Configured) : SpecHasRun(k)
    /\ pc # "exited" => exitCode = << >>

\* C10 witness: the process exited with code 0 after one check raised and
\* another returned.
C10_Witness ==
    /\ pc = "exited"
    /\ exitCode = <<0>>
    /\ \E i \in 1..Len(invoked) : invoked[i].outcome.kind = "raise"
    /\ \E i \in 1..Len(invoked) : invoked[i].outcome.kind = "return"

\* the lines of the summary print_summary has printed
SummaryLines == {n \in 1..Len(out) : out[n][1] = "ENUMERATION SUMMARY"}

\* C11: every CheckResult stored has status 'success' or 'error', and a summary
\* that has been printed gives the size of the ResultSet as its total and two
\* counts, of the results with status 'success' and of those with status
\* 'error', whose sum is that total.
C11_SummaryCounts ==
    /\ \A j \in 1..Len(results) : results[j].value.status \in {"success", "error"}
    /\ \A n \in SummaryLines :
          /\ out[n][2] = ToString(Len(results))
          /\ out[n][3] = ToString(CountStatus(results, "success"))
          /\ out[n][4] = ToString(CountStatus(results, "error"))
          /\ CountStatus(results, "success") + CountStatus(results, "error")
                = Len(results)

\* a summary over two results, one of each status
C11_Witness ==
    /\ SummaryLines # {}
    /\ Len(results) = 2
    /\ CountStatus(results, "success") = 1
    /\ CountStatus(results, "error") = 1

\* C12: every CheckResult in the ResultSet has a timestamp and exactly one of
\* 'result' and 'error': 'result' and no 'error' iff its status is 'success',
\* 'error' and no 'result' iff its status is 'error'.
C12_ResultShape ==
    \A j \in 1..Len(results) :
        LET r == results[j].value IN
          /\ "timestamp" \in DOMAIN r
          /\ ("result" \in DOMAIN r) # ("error" \in DOMAIN r)
          /\ (r.status = "success") <=>
                ("result" \in DOMAIN r /\ "error" \notin DOMAIN r)
          /\ (r.status = "error") <=>
                ("error" \in DOMAIN r /\ "result" \notin DOMAIN r)

\* a ResultSet holding a success with its payload and an error with its message
C12_Witness ==
    /\ \E j \in 1..Len(results) :
          results[j].value.status = "success" /\ "result" \in DOMAIN results[j].value
    /\ \E j \in 1..Len(results) :
          results[j].value.status = "error" /\ "error" \in DOMAIN results[j].value

\* the first position of the checks list at which a check named n is loaded
FirstLoad(n) ==
    CHOOSE k \in DOMAIN Configured :
        /\ Configured[k]["name"] = n /\ SpecHasRun(k)
        /\ \A h \in DOMAIN Configured :
              Configured[h]["name"] = n /\ SpecHasRun(h) => k <= h

\* the reports on disk that json.dump wrote to the end
Reports == {p \in DOMAIN disk : disk[p].complete}

\* C13, as stated: the checks are invoked, and their results stored and
\* persisted, in the order in which their CheckSpecs were loaded from the
\* configuration, i.e. by increasing position in the checks list.
C13_ConfigurationOrder ==
    /\ \A i, j \in 1..Len(started) :
          i < j => started[i].pos < started[j].pos
    /\ \A j \in 1..Len(results) : results[j].name = started[j].name
    /\ \A p \in Reports :
          \A j \in 1..Len(disk[p].items) : disk[p].items[j].name = results[j].name

\* What holds in place of C13: the checks are invoked in the order of the loaded checks; the
\* ResultSet and the persisted report hold the results in that order; and
\* that order is the order in which each name was first loaded from the
\* configuration, whichever CheckSpec the name is bound to in the end.
C13_FirstLoadOrder ==
    /\ \A i \in 1..Len(started) :
          started[i].name = tests[i].name /\ started[i].pos = tests[i].value.pos
    /\ \A j \in 1..Len(results) : results[j].name = started[j].name
    /\ \A i, j \in 1..Len(tests) :
          i < j => FirstLoad(tests[i].name) < FirstLoad(tests[j].name)
    /\ \A p \in Reports :
          \A j \in 1..Len(disk[p].items) : disk[p].items[j].name = results[j].name

\* a name configured before and after another one, both checks over and the
\* report written
C13_Witness ==
    /\ Len(Configured) = 3
    /\ Configured[1]["name"] = Configured[3]["name"]
    /\ Configured[1]["name"] # Configured[2]["name"]
    /\ Len(results) = 2
    /\ results[1].name = Configured[1]["name"]
    /\ started[1].pos = 3
    /\ \E p \in Reports : Len(disk[p].items) = 2

\* saveResults is set in the configuration that was loaded
SaveResults == Get(config, "save_results", FALSE) = TRUE

OutputPath == Get(config, "output_file", "enumeration_results.json")

\* writing the ResultSet to outputPath fails: the path is not writable or a
\* payload cannot be serialized
WriteFails == ~Writable(OutputPath) \/ FirstUnserializable(results) # 0

\* print_summary has been called and is over
Summarised == SummaryLines # {}

\* C14: when saveResults is set and writing the report fails, because the
\* output path is not writable or because the ResultSet cannot be serialized,
\* the failure is printed as a diagnostic, no exception leaves print_summary,
\* the ResultSet is left as it was, and the process goes on to finish with
\* exit status 0, as it does after a write that succeeds.
C14_WriteFailureNonFatal ==
    /\ [](Summarised /\ SaveResults /\ WriteFails =>
            /\ \E n \in 1..Len(out) : out[n][1] = "Error saving results:"
            /\ uncaught = "none"
            /\ pc \in {"complete", "exited"}
            /\ pc = "exited" => exitCode = <<0>>)
    /\ [][pc = "print_summary" /\ SaveResults /\ WriteFails =>
            results' = results /\ pc' = "complete"]_vars

\* a run that ended with status 0 after json.dump failed on a payload, and one
\* result was recorded before the payload that cannot be written
C14_Witness ==
    /\ Summarised /\ SaveResults
    /\ Writable(OutputPath) /\ FirstUnserializable(results) = 2
    /\ pc = "exited" /\ exitCode = <<0>>

\* the document json.dump writes for the whole ResultSet
FullReport == [complete |-> TRUE, items |-> JsonDump(results)]

\* C15, as stated: once the checks have run and the summary is printed, the
\* whole ResultSet is in the file at outputPath if and only if saveResults is
\* set, and nothing is written when it is not set.
C15_PersistedIffSaveResults ==
    /\ Summarised =>
          (SaveResults <=>
             /\ OutputPath \in DOMAIN disk
             /\ disk[OutputPath].complete
             /\ disk[OutputPath] = FullReport)
    /\ ~SaveResults => disk = EmptyDict

\* C15, amended: the whole ResultSet, in order, is in the file at outputPath
\* once the summary is printed if saveResults is set and the write does not
\* fail; if outputPath is not writable no file is written; if a payload cannot
\* be serialized the file at outputPath is left cut off before the first such
\* result; and no file is written or modified before the summary, or when
\* saveResults is false or absent.
C15_ReportPersisted ==
    /\ Summarised /\ SaveResults /\ ~WriteFails =>
          DOMAIN disk = {OutputPath} /\ disk[OutputPath] = FullReport
    /\ Summarised /\ SaveResults /\ ~Writable(OutputPath) => disk = EmptyDict
    /\ Summarised /\ SaveResults /\ Writable(OutputPath)
          /\ FirstUnserializable(results) # 0 =>
          /\ DOMAIN disk = {OutputPath}
          /\ disk[OutputPath] =
                [complete |-> FALSE,
                 items |-> JsonDump(SubSeq(results, 1,
                                           FirstUnserializable(results) - 1))]
    /\ ~Summarised \/ ~SaveResults => disk = EmptyDict

\* two results written in full to the default output path
C15_Witness ==
    /\ Summarised /\ SaveResults /\ ~WriteFails
    /\ "output_file" \notin DOMAIN config
    /\ Len(results) = 2
    /\ disk = ("enumeration_results.json" :> FullReport)

\* the entries at positions h < k of the checks list share their name, and
\* both are enabled and load as modules with an attribute run
SameName(h, k) ==
    /\ h < k
    /\ Configured[h]["name"] = Configured[k]["name"]
    /\ SpecHasRun(h) /\ SpecHasRun(k)

\* the last position of the checks list at which a check named n is loaded
LastLoad(n) ==
    CHOOSE k \in DOMAIN Configured :
        /\ Configured[k]["name"] = n /\ SpecHasRun(k)
        /\ \A h \in DOMAIN Configured :
              Configured[h]["name"] = n /\ SpecHasRun(h) => h <= k

\* the CheckResult run_test stores for the outcome of an invocation
Recorded(outcome, value) ==
    IF outcome.kind = "return"
    THEN value.status = "success" /\ value["result"] = outcome.value
    ELSE value.status = "error" /\ value["error"] = Str(outcome.exc)

\* C16: no two entries of the ResultSet, and no two loaded checks, have the
\* same name; and when two CheckSpecs share a name, both enabled and loadable,
\* the earlier one is replaced: it is not among the loaded checks and is never invoked, and the single
\* result under the name is the outcome of the one invocation of the CheckSpec
\* configured last under that name.
C16_LastWriteWins ==
    /\ \A i, j \in 1..Len(results) : results[i].name = results[j].name => i = j
    /\ \A i, j \in 1..Len(tests) : tests[i].name = tests[j].name => i = j
    /\ Discovered =>
          \A h, k \in DOMAIN Configured :
              SameName(h, k) =>
                LET n == Configured[k]["name"] IN
                  /\ ~LoadedFrom(h) /\ ~InvokedFrom(h)
                  /\ LoadedFrom(LastLoad(n))
                  /\ HasKey(results, n) =>
                        /\ Cardinality({i \in 1..Len(invoked) :
                                            invoked[i].name = n}) = 1
                        /\ \E i \in 1..Len(invoked) :
                              /\ invoked[i].name = n
                              /\ invoked[i].pos = LastLoad(n)
                              /\ Recorded(invoked[i].outcome, Lookup(results, n))

\* one name configured with a check that returns and then with a module whose
\* run cannot be called: the one result under the name is the error of the
\* second
C16_Witness ==
    /\ Len(Configured) = 2 /\ SameName(1, 2)
    /\ Configured[1]["file"] = "ok.py" /\ Configured[2]["file"] = "attr.py"
    /\ Len(results) = 1
    /\ results[1].name = Configured[1]["name"]
    /\ results[1].value.status = "error"

\* json.load of the file at outputPath: the document, if there is a file and
\* it holds a whole document
Reread ==
    IF OutputPath \in DOMAIN disk /\ disk[OutputPath].complete
    THEN [kind |-> "document", value |-> JsonLoad(disk[OutputPath].items)]
    ELSE [kind |-> "error"]

\* a payload that is None or a dict with string keys
JsonNative(v) == v = NoneValue \/ (v.type = "dict" /\ "value" \in DOMAIN v)

DiscoveryLines ==
    {n \in 1..Len(out) :
        out[n][1] \in {"[+] Loaded test:", "[-] Skipping disabled test:",
                       "[!] Test file not found:",
                       "[!] Error loading test module",
                       "[!] Test module missing 'run' function"}}

\* C18, as stated: once discover_tests is over, it has printed exactly one
\* diagnostic line for every CheckSpec of the checks list, so as many lines as
\* there are CheckSpecs.
C18_OneDiagnosticPerSpec ==
    Discovered => Cardinality(DiscoveryLines) = Len(Configured)

\* the number of invocations begun and not over
InProgress == Len(started) - Len(invoked)

\* C19: at most one invocation is in progress at any time; every invocation
\* begun before the one in progress, or before now if none is, is over and
\* its CheckResult is recorded under its name, so no check is invoked before
\* the result of the one before it is in the ResultSet; and the summary is
\* printed, and a report written, only when every loaded check has been
\* invoked and has its result.
C19_Sequential ==
    /\ InProgress \in {0, 1}
    /\ InProgress = 1 <=> pc \in {"in_run", "hung"}
    /\ Len(results) = Len(invoked)
    /\ \A i \in 1..Len(invoked) :
          /\ invoked[i].name = started[i].name /\ invoked[i].pos = started[i].pos
          /\ HasKey(results, started[i].name)
          /\ Recorded(invoked[i].outcome, Lookup(results, started[i].name))
    /\ Summarised \/ disk # EmptyDict =>
          /\ InProgress = 0
          /\ Len(tests) > 0
          /\ Len(started) = Len(tests)
          /\ Len(results) = Len(tests)

\* the second check is running and the result of the first is recorded
C19_Witness ==
    /\ pc = "in_run"
    /\ Len(started) = 2 /\ Len(invoked) = 1
    /\ HasKey(results, started[1].name)
    /\ ~HasKey(results, started[2].name)

\* the run is blocked in the invocation of the check the loop is at: that
\* check has no result, no later check has been invoked, and there is no
\* summary, no report and no exit status
Blocked ==
    /\ pc = "hung"
    /\ InProgress = 1
    /\ Len(started) = it
    /\ ~HasKey(results, tests[it].name)
    /\ ~Summarised
    /\ disk = EmptyDict
    /\ exitCode = << >>

\* C20: a run whose invocation of a check never returns takes no further step
\* and stays blocked at that check for ever, with no result for it, no later
\* check invoked, no summary, no report and no exit; and a run in which no
\* invocation fails to return ends with the exit of the process.
C20_NoTimeout ==
    /\ [][pc # "hung"]_vars
    /\ [](pc = "hung" => []Blocked)
    /\ (<>(pc = "hung") \/ <>(pc = "exited"))

\* the first of two loaded checks never returns
C20_Witness == Blocked /\ it = 1 /\ Len(tests) = 2

\* the invocations of the implementation of the entry at position k
InvocationsOf(k) == {i \in 1..Len(started) : started[i].pos = k}

\* the entry at position k has been invoked once, with its own parameters
InvokedOnceWithOwnParameters(k) ==
    /\ Cardinality(InvocationsOf(k)) = 1
    /\ \A i \in InvocationsOf(k) :
          started[i].params = Get(Configured[k], "parameters", EmptyDict)

\* C21, as stated: when the loop of run_all_tests is over, every CheckSpec
\* that is enabled, whose file exists and whose module loads with an attribute
\* run has been invoked exactly once, with its own parameters, whether or not
\* another CheckSpec has its name.
C21_EveryLoadableSpecInvokedOnce ==
    RunCompleted =>
        \A k \in DOMAIN Configured :
            SpecHasRun(k) => InvokedOnceWithOwnParameters(k)

\* What holds in place of C21: every such CheckSpec that is the last one
\* configured under its name has been invoked exactly once, with its own
\* parameters, and the ones configured before it under that name never.
C21_LastConfiguredInvokedOnce ==
    RunCompleted =>
        \A k \in DOMAIN Configured :
            SpecHasRun(k) =>
                IF k = LastLoad(Configured[k]["name"])
                THEN InvokedOnceWithOwnParameters(k)
                ELSE InvocationsOf(k) = {}

\* the calls of the run of firewallCheck.py that are over
FirewallRuns == {i \in 1..Len(invoked) : "env" \in DOMAIN invoked[i].outcome}

\* ufw is installed, `ufw status` exits with code 0 and a line of its output
\* is 'Status: active'
ReportsActive(env) ==
    /\ env.raises = "none" /\ env.which_rc = 0 /\ env.rc = 0
    /\ \E l \in DOMAIN env.stdout : env.stdout[l] = NeedleStatusActive

\* C22, as stated: a run of the firewall check that finds ufw installed,
\* `ufw status` exiting with code 0 and the line 'Status: active' in its
\* output returns status 'PASS' and firewall_status 'active', whatever
\* require_active and check_rules are; and a run that returns status 'FAIL'
\* had require_active true and an output that does not report the firewall as
\* active.
C22_ActiveReportedAsPass ==
    \A i \in FirewallRuns :
        LET env == invoked[i].outcome.env
            payload == invoked[i].outcome.value.value
        IN  /\ ReportsActive(env) =>
                /\ payload.status = "PASS"
                /\ payload["firewall_status"] = "active"
            /\ payload.status = "FAIL" =>
                /\ ~ReportsActive(env)
                /\ Get(invoked[i].params, "require_active", TRUE) = TRUE

\* What holds in place of C22: the run returns 'PASS' and 'active' exactly
\* when `ufw status` exits with code 0 and its output, in lower case, has
\* 'stav: aktívny' in it, which the English output never has; otherwise the
\* output of a run of `ufw status` that exits with code 0 gives 'FAIL' if
\* require_active is true or absent, and 'WARNING' if it is false.
C22_OnlySlovakActivePasses ==
    \A i \in FirewallRuns :
        LET env == invoked[i].outcome.env
            payload == invoked[i].outcome.value.value
            require_active == Get(invoked[i].params, "require_active", TRUE)
        IN  env.raises = "none" /\ env.which_rc = 0 /\ env.rc = 0 =>
              IF In(NeedleStavAktivny, Lower(env.stdout))
              THEN payload.status = "PASS" /\ payload["firewall_status"] = "active"
              ELSE IF require_active THEN payload.status = "FAIL"
              ELSE payload.status = "WARNING"

============================================================================
